---- MODULE Spec2Model ----
(***************************************************************************)
(* Model of isort/api.py: the whole-content entry points sorted_imports    *)
(* and check_imports, and the streaming segmenter sort_imports.            *)
(*                                                                         *)
(* Text is modelled at character level: a str is a sequence of one-        *)
(* character strings, a stream is a sequence of lines, each line a str     *)
(* that ends with its line terminator.                                     *)
(***************************************************************************)
EXTENDS Integers, Sequences, FiniteSets, TLC

(***************************************************************************)
(* Bounds of the model.                                                    *)
(***************************************************************************)
\* longest input stream handed to sort_imports, in lines
MaxStreamLines == 4
\* longest content handed to sorted_imports / check_imports, in lines
MaxContentLines == 2
\* longest line handed to the quote scan alone, in characters
MaxScanLen == 4

(***************************************************************************)
(* str primitives of the Python runtime used by api.py.                    *)
(***************************************************************************)
\* s.startswith(p)
StartsWith(s, p) ==
    /\ Len(s) >= Len(p)
    /\ SubSeq(s, 1, Len(p)) = p

\* s.endswith(p)
EndsWith(s, p) ==
    /\ Len(s) >= Len(p)
    /\ SubSeq(s, Len(s) - Len(p) + 1, Len(s)) = p

\* sub in s
Contains(s, sub) ==
    \E i \in 1..(Len(s) - Len(sub) + 1) : SubSeq(s, i, i + Len(sub) - 1) = sub

\* the characters str.strip() removes
Whitespace == {" ", "\n", "\t", "\r", "\f"}

RECURSIVE LStrip(_)
LStrip(s) ==
    IF s # <<>> /\ Head(s) \in Whitespace THEN LStrip(Tail(s)) ELSE s

RECURSIVE RStrip(_)
RStrip(s) ==
    IF s # <<>> /\ s[Len(s)] \in Whitespace
    THEN RStrip(SubSeq(s, 1, Len(s) - 1))
    ELSE s

\* s.strip()
Strip(s) == RStrip(LStrip(s))

\* s.split("#")[0]
RECURSIVE BeforeHash(_)
BeforeHash(s) ==
    IF s = <<>> \/ Head(s) = "#" THEN <<>> ELSE <<Head(s)>> \o BeforeHash(Tail(s))

\* s[from : from + n] with Python's clipping at the end of s (from is 1-based)
Slice(s, from, n) ==
    SubSeq(s, from, IF from + n - 1 > Len(s) THEN Len(s) ELSE from + n - 1)

\* "".join(lines): the text of a sequence of lines
RECURSIVE Join(_)
Join(lines) ==
    IF lines = <<>> THEN <<>> ELSE Head(lines) \o Join(Tail(lines))

(***************************************************************************)
(* Module constants of api.py and settings.                                *)
(***************************************************************************)
IMPORT_START_IDENTIFIERS ==
    { <<"f","r","o","m"," ">>,
      <<"f","r","o","m",".","i","m","p","o","r","t">>,
      <<"i","m","p","o","r","t"," ">>,
      <<"i","m","p","o","r","t","*">> }

\* stripped_line.startswith(IMPORT_START_IDENTIFIERS)
StartsWithImport(s) == \E p \in IMPORT_START_IDENTIFIERS : StartsWith(s, p)

FILE_SKIP_COMMENT ==
    <<"i","s","o","r","t",":","s","k","i","p","_","f","i","l","e">>

DoubleQuote == "\""
SingleQuote == "'"
Backslash == "\\"
TripleQuotes == { <<DoubleQuote, DoubleQuote, DoubleQuote>>,
                  <<SingleQuote, SingleQuote, SingleQuote>> }

(***************************************************************************)
(* The lines the inputs are built from.                                    *)
(***************************************************************************)
LineImportA == <<"i","m","p","o","r","t"," ","a","\n">>
LineImportB == <<"i","m","p","o","r","t"," ","b","\n">>
LineCode == <<"x"," ","="," ","1","\n">>
LineComment == <<"#"," ","c","\n">>
LineBlank == <<"\n">>
LineTriple == <<DoubleQuote, DoubleQuote, DoubleQuote, "\n">>
LineFromOpen == <<"f","r","o","m"," ","x"," ","i","m","p","o","r","t"," ","(","\n">>
LineFromOpenCmt ==
    <<"f","r","o","m"," ","x"," ","i","m","p","o","r","t"," ","("," ","#"," ",")","\n">>
LineClose == <<"a",")","\n">>
LineImportCont == <<"i","m","p","o","r","t"," ","a",","," ",Backslash,"\n">>
LineSkip == <<"#"," ">> \o FILE_SKIP_COMMENT \o <<"\n">>
LineOpenParen == <<"x"," ","="," ","(","\n">>
LineCloseParen == <<")","\n">>

StreamLines ==
    { LineImportA, LineImportB, LineCode, LineComment, LineTriple,
      LineFromOpen, LineFromOpenCmt, LineClose, LineImportCont }

ContentLines ==
    { LineImportA, LineImportB, LineCode, LineSkip, LineBlank,
      LineOpenParen, LineCloseParen }

\* all sequences over S of length at most n
SeqsUpTo(S, n) == UNION { [1..k -> S] : k \in 0..n }


(***************************************************************************)
(* settings.Config, as far as api.py reads it.  DEFAULT_CONFIG is the one  *)
(* object for which "config is DEFAULT_CONFIG" holds.                      *)
(***************************************************************************)
DEFAULT_CONFIG ==
    [ is_default |-> TRUE, atomic |-> FALSE, ignore_whitespace |-> FALSE,
      verbose |-> FALSE, line_ending |-> <<>>, import_headings |-> {} ]

\* section_comments = [f"# {heading}" for heading in config.import_headings.values()]
section_comments(cfg) == { <<"#", " ">> \o h : h \in cfg.import_headings }

(***************************************************************************)
(* The external SortTransform, output.sorted_imports(parse.file_contents   *)
(* (text)): one-line import statements outside literals are put in         *)
(* ascending order in the places import statements occupy; every other     *)
(* line stays where it is.                                                 *)
(***************************************************************************)
AsciiOrder ==
    << "\t", "\n", "\f", "\r", " ", DoubleQuote, "#", SingleQuote, "(", ")", "*",
       ",", ".", "1", ":", "=", Backslash, "_",
       "a", "b", "c", "d", "e", "f", "g", "h", "i", "j", "k", "l", "m",
       "n", "o", "p", "q", "r", "s", "t", "u", "v", "w", "x", "y", "z" >>

Ord(c) == CHOOSE i \in 1..Len(AsciiOrder) : AsciiOrder[i] = c

\* a <= b as Python compares str
RECURSIVE StrLeq(_, _)
StrLeq(a, b) ==
    IF a = <<>> THEN TRUE
    ELSE IF b = <<>> THEN FALSE
    ELSE IF Head(a) = Head(b) THEN StrLeq(Tail(a), Tail(b))
    ELSE Ord(Head(a)) < Ord(Head(b))

RECURSIVE Insert(_, _)
Insert(x, sorted) ==
    IF sorted = <<>> THEN <<x>>
    ELSE IF StrLeq(x, Head(sorted)) THEN <<x>> \o sorted
    ELSE <<Head(sorted)>> \o Insert(x, Tail(sorted))

RECURSIVE SortLines(_)
SortLines(lines) ==
    IF lines = <<>> THEN <<>> ELSE Insert(Head(lines), SortLines(Tail(lines)))

(***************************************************************************)
(* The quote scan of sort_imports: the while loop over char_index.         *)
(* char_index is 1-based here.  The result is the pair of locals the loop  *)
(* writes.                                                                 *)
(***************************************************************************)
\* the quote scan without lines 162-163: a backslash is a character like any other
RECURSIVE QuoteScanNoEscape(_, _, _, _, _, _)
QuoteScanNoEscape(line, char_index, in_quote, fc_start, fc_end, index) ==
    IF char_index > Len(line)
    THEN [in_quote |-> in_quote, first_comment_index_end |-> fc_end]
    ELSE IF in_quote # <<>>
    THEN IF Slice(line, char_index, Len(in_quote)) = in_quote
         THEN QuoteScanNoEscape(line, char_index + 1, <<>>, fc_start,
                                IF fc_end < fc_start THEN index ELSE fc_end, index)
         ELSE QuoteScanNoEscape(line, char_index + 1, in_quote, fc_start, fc_end, index)
    ELSE IF line[char_index] \in {SingleQuote, DoubleQuote}
    THEN IF Slice(line, char_index, 3) \in TripleQuotes
         THEN QuoteScanNoEscape(line, char_index + 3, Slice(line, char_index, 3),
                                fc_start, fc_end, index)
         ELSE QuoteScanNoEscape(line, char_index + 1, <<line[char_index]>>,
                                fc_start, fc_end, index)
    ELSE IF line[char_index] = "#"
    THEN [in_quote |-> in_quote, first_comment_index_end |-> fc_end]
    ELSE QuoteScanNoEscape(line, char_index + 1, in_quote, fc_start, fc_end, index)

RECURSIVE QuoteScan(_, _, _, _, _, _)
QuoteScan(line, char_index, in_quote, fc_start, fc_end, index) ==
    IF char_index > Len(line)
    THEN [in_quote |-> in_quote, first_comment_index_end |-> fc_end]
    ELSE IF line[char_index] = Backslash
    THEN QuoteScan(line, char_index + 2, in_quote, fc_start, fc_end, index)
    ELSE IF in_quote # <<>>
    THEN IF Slice(line, char_index, Len(in_quote)) = in_quote
         THEN QuoteScan(line, char_index + 1, <<>>, fc_start,
                        IF fc_end < fc_start THEN index ELSE fc_end, index)
         ELSE QuoteScan(line, char_index + 1, in_quote, fc_start, fc_end, index)
    ELSE IF line[char_index] \in {SingleQuote, DoubleQuote}
    THEN IF Slice(line, char_index, 3) \in TripleQuotes
         THEN QuoteScan(line, char_index + 3, Slice(line, char_index, 3),
                        fc_start, fc_end, index)
         ELSE QuoteScan(line, char_index + 1, <<line[char_index]>>,
                        fc_start, fc_end, index)
    ELSE IF line[char_index] = "#"
    THEN [in_quote |-> in_quote, first_comment_index_end |-> fc_end]
    ELSE QuoteScan(line, char_index + 1, in_quote, fc_start, fc_end, index)

\* the delimiter left open after a line, whatever the indices are
QuoteAfter(line, in_quote) == QuoteScan(line, 1, in_quote, -1, -1, 0).in_quote

(***************************************************************************)
(* SortTransform, continued: which lines are one-line import statements.   *)
(* st is "none", "paren" (inside a parenthesized import) or "bslash"       *)
(* (after a continuation backslash).                                       *)
(***************************************************************************)
RECURSIVE SortableFlags(_, _, _)
SortableFlags(lines, in_quote, st) ==
    IF lines = <<>> THEN <<>>
    ELSE LET l == Head(lines)
             after == QuoteAfter(l, in_quote)
             code == Strip(BeforeHash(l))
             isImport == in_quote = <<>> /\ after = <<>> /\ st = "none"
                         /\ StartsWithImport(Strip(l))
             opens == isImport /\ Contains(code, <<"(">>) /\ ~Contains(code, <<")">>)
             conts == isImport /\ ~opens /\ EndsWith(code, <<Backslash>>)
             st2 == CASE st = "paren" ->
                            IF Contains(l, <<")">>) THEN "none" ELSE "paren"
                      [] st = "bslash" ->
                            IF EndsWith(Strip(l), <<Backslash>>) THEN "bslash" ELSE "none"
                      [] OTHER ->
                            IF opens THEN "paren" ELSE IF conts THEN "bslash" ELSE "none"
         IN  <<isImport /\ ~opens /\ ~conts>> \o SortableFlags(Tail(lines), after, st2)

\* the lines of `lines` whose flag is set
RECURSIVE Pick(_, _)
Pick(lines, flags) ==
    IF lines = <<>> THEN <<>>
    ELSE (IF Head(flags) THEN <<Head(lines)>> ELSE <<>>) \o Pick(Tail(lines), Tail(flags))

\* `lines` with the flagged places filled, in order, from `fill`
RECURSIVE Refill(_, _, _)
Refill(lines, flags, fill) ==
    IF lines = <<>> THEN <<>>
    ELSE IF Head(flags)
    THEN <<Head(fill)>> \o Refill(Tail(lines), Tail(flags), Tail(fill))
    ELSE <<Head(lines)>> \o Refill(Tail(lines), Tail(flags), fill)

SortTransform(lines) ==
    LET flags == SortableFlags(lines, <<>>, "none")
    IN  Refill(lines, flags, SortLines(Pick(lines, flags)))

\* a SortTransform that also drops the blank lines at the top of the text
RECURSIVE DropLeadingBlank(_)
DropLeadingBlank(lines) ==
    IF lines # <<>> /\ Strip(Head(lines)) = <<>>
    THEN DropLeadingBlank(Tail(lines))
    ELSE lines

TidyTransform(lines) == SortTransform(DropLeadingBlank(lines))

\* a SortTransform with a defect: it loses the lines that only close a parenthesis
DropClosers(lines) == SelectSeq(lines, LAMBDA l : Strip(l) # <<")">>)

FaultyTransform(lines) == SortTransform(DropClosers(lines))

\* a SortTransform that also lays the text out anew: every line that is not
\* blank gets an indentation of one space and a "\r\n" terminator and is
\* followed by a blank line; the blank lines of the text are dropped
RECURSIVE Respace(_)
Respace(lines) ==
    IF lines = <<>> THEN <<>>
    ELSE IF Strip(Head(lines)) = <<>> THEN Respace(Tail(lines))
    ELSE << <<" ">> \o Strip(Head(lines)) \o <<"\r", "\n">>, <<"\n">> >>
         \o Respace(Tail(lines))

RespacedTransform(lines) == Respace(SortTransform(lines))

TransformKinds == {"canonical", "tidy", "faulty", "respaced"}

\* output.sorted_imports(parse.file_contents(text, config=config), config, extension)
output_sorted_imports(kind, lines) ==
    CASE kind = "faulty" -> FaultyTransform(lines)
      [] kind = "tidy" -> TidyTransform(lines)
      [] kind = "respaced" -> RespacedTransform(lines)
      [] OTHER -> SortTransform(lines)

(***************************************************************************)
(* The whole-content entry points.  A call is modelled by what it returns  *)
(* or raises; extension is only handed on to SortTransform and is left     *)
(* out.  config_kwargs is a function from option names to values.          *)
(***************************************************************************)
\* compile(file_contents, content_source, "exec", 0, 1) raises no SyntaxError.
\* open: a parenthesis is open at the start of `lines`.  No line of the inputs
\* opens a block, so an indented statement outside parentheses is an error.
RECURSIVE CompilesFrom(_, _)
CompilesFrom(lines, open) ==
    IF lines = <<>> THEN ~open
    ELSE LET code == Strip(BeforeHash(Head(lines)))
         IN  IF code = <<>> THEN CompilesFrom(Tail(lines), open)
             ELSE IF open THEN code = <<")">> /\ CompilesFrom(Tail(lines), FALSE)
             ELSE IF Head(Head(lines)) \in {" ", "\t"} THEN FALSE
             ELSE IF Contains(code, <<")">>) /\ ~Contains(code, <<"(">>) THEN FALSE
             ELSE CompilesFrom(Tail(lines), EndsWith(code, <<"(">>))

Compiles(lines) == CompilesFrom(lines, FALSE)

\* Config(**config_kwargs)
NewConfig(config_kwargs) ==
    [ is_default |-> FALSE,
      atomic |-> IF "atomic" \in DOMAIN config_kwargs
                 THEN config_kwargs["atomic"] ELSE DEFAULT_CONFIG.atomic,
      ignore_whitespace |-> IF "ignore_whitespace" \in DOMAIN config_kwargs
                 THEN config_kwargs["ignore_whitespace"]
                 ELSE DEFAULT_CONFIG.ignore_whitespace,
      verbose |-> DEFAULT_CONFIG.verbose,
      line_ending |-> DEFAULT_CONFIG.line_ending,
      import_headings |-> DEFAULT_CONFIG.import_headings ]

\* _config(config=cfg, **config_kwargs), called without a path
_config(cfg, kwargs) ==
    IF DOMAIN kwargs # {} /\ ~cfg.is_default
    THEN [ raised |-> TRUE, config |-> cfg ]
    ELSE IF DOMAIN kwargs # {}
    THEN [ raised |-> FALSE, config |-> NewConfig(kwargs) ]
    ELSE [ raised |-> FALSE, config |-> cfg ]

\* SkipCheck with the two tests in the other order: the skip rule before the marker
SkipCheckRuleFirst(contents, path, no_skip) ==
    IF ~no_skip
    THEN IF path # "none" /\ path = "skipped" THEN "FileSkipSetting"
         ELSE IF Contains(Join(contents), FILE_SKIP_COMMENT) THEN "FileSkipComment"
         ELSE "none"
    ELSE "none"

\* lines 52-57 of sorted_imports: the skip error raised, or "none".
\* path is "none" (no file_path), "skipped" (config.is_skipped(file_path)) or "kept".
SkipCheck(contents, path, no_skip) ==
    IF ~no_skip
    THEN IF Contains(Join(contents), FILE_SKIP_COMMENT) THEN "FileSkipComment"
         ELSE IF path # "none" /\ path = "skipped" THEN "FileSkipSetting"
         ELSE "none"
    ELSE "none"

\* PreCheck left out: the content is not validated before the transform
PreCheckMissing(contents, cfg) == "none"

\* lines 59-63: the validation before the transform
PreCheck(contents, cfg) ==
    IF cfg.atomic /\ ~Compiles(contents) THEN "ExistingSyntaxErrors" ELSE "none"

\* lines 68-72: the validation after the transform
PostCheck(contents, parsed_output, cfg) ==
    IF cfg.atomic /\ ~Compiles(contents) THEN "IntroducedSyntaxErrors" ELSE "none"

\* what a call of sorted_imports raised or returned; transformed: SortTransform ran
Raised(error) == [ status |-> error, result |-> <<>>, transformed |-> FALSE ]

sorted_imports(contents, cfg, path, no_skip, kwargs, kind) ==
    LET c == _config(cfg, kwargs)
        parsed_output == output_sorted_imports(kind, contents)
    IN  IF c.raised THEN Raised("ValueError")
        ELSE IF SkipCheck(contents, path, no_skip) # "none"
        THEN Raised(SkipCheck(contents, path, no_skip))
        ELSE IF PreCheck(contents, c.config) # "none"
        THEN Raised(PreCheck(contents, c.config))
        ELSE IF PostCheck(contents, parsed_output, c.config) # "none"
        THEN [ status |-> PostCheck(contents, parsed_output, c.config),
               result |-> <<>>, transformed |-> TRUE ]
        ELSE [ status |-> "ok", result |-> parsed_output, transformed |-> TRUE ]

\* s.replace(sub, "")
RECURSIVE RemoveAll(_, _)
RemoveAll(s, sub) ==
    IF s = <<>> \/ sub = <<>> THEN s
    ELSE IF StartsWith(s, sub) THEN RemoveAll(SubSeq(s, Len(sub) + 1, Len(s)), sub)
    ELSE <<Head(s)>> \o RemoveAll(Tail(s), sub)

\* format.remove_whitespace(content, line_separator): the line separators are
\* taken out, then every other whitespace character
remove_whitespace(content, line_separator) ==
    SelectSeq(RemoveAll(content, line_separator), LAMBDA c : c \notin Whitespace)

\* parse._infer_line_separator(contents)
infer_line_separator(contents) ==
    IF Contains(contents, <<"\r", "\n">>) THEN <<"\r", "\n">>
    ELSE IF Contains(contents, <<"\r">>) THEN <<"\r">>
    ELSE <<"\n">>

\* CompareTexts without the strip of the raw texts
CompareTextsRaw(contents, sorted_output, cfg) ==
    IF cfg.ignore_whitespace
    THEN LET line_separator == IF cfg.line_ending # <<>> THEN cfg.line_ending
                               ELSE infer_line_separator(Join(contents))
         IN  [ compare_in |-> Strip(remove_whitespace(Join(contents), line_separator)),
               compare_out |-> Strip(remove_whitespace(Join(sorted_output),
                                                        line_separator)) ]
    ELSE [ compare_in |-> Join(contents), compare_out |-> Join(sorted_output) ]

\* CompareTexts that never looks at config.ignore_whitespace
CompareTextsFlagIgnored(contents, sorted_output, cfg) ==
    [ compare_in |-> Strip(Join(contents)),
      compare_out |-> Strip(Join(sorted_output)) ]

\* lines 95-101 of check_imports: the two texts that are compared
CompareTexts(contents, sorted_output, cfg) ==
    IF cfg.ignore_whitespace
    THEN LET line_separator == IF cfg.line_ending # <<>> THEN cfg.line_ending
                               ELSE infer_line_separator(Join(contents))
         IN  [ compare_in |-> Strip(remove_whitespace(Join(contents), line_separator)),
               compare_out |-> Strip(remove_whitespace(Join(sorted_output),
                                                        line_separator)) ]
    ELSE [ compare_in |-> Strip(Join(contents)),
           compare_out |-> Strip(Join(sorted_output)) ]

\* lines 103-113: the value returned and what is printed on the way
Verdict(texts, cfg, diff) ==
    IF texts.compare_out = texts.compare_in
    THEN [ status |-> "ok", value |-> TRUE,
           printed |-> IF cfg.verbose THEN "SUCCESS" ELSE "none",
           diff_shown |-> FALSE ]
    ELSE [ status |-> "ok", value |-> FALSE, printed |-> "ERROR",
           diff_shown |-> diff ]

\* inner_status, inner_result: what the nested sorted_imports call did
\* ("none" when it was never made)
check_imports(contents, diff, cfg, path, no_skip, kwargs, kind) ==
    LET c == _config(cfg, kwargs)
        inner == sorted_imports(contents, c.config, path, no_skip, kwargs, kind)
        failed(error, inner_error) ==
            [ status |-> error, value |-> FALSE, printed |-> "none",
              diff_shown |-> FALSE, inner_status |-> inner_error,
              inner_result |-> <<>> ]
    IN  IF c.raised THEN failed("ValueError", "none")
        ELSE IF inner.status # "ok" THEN failed(inner.status, inner.status)
        ELSE [ inner_status |-> "ok", inner_result |-> inner.result ] @@
             Verdict(CompareTexts(contents, inner.result, c.config), c.config, diff)

\* _config(path=path, config=cfg, **config_kwargs): lines 23-29 hand the path
\* to a new Config as settings_path when the caller gave no Config of its own
_config_path(path, cfg, kwargs) ==
    _config(cfg, IF /\ cfg.is_default
                    /\ "settings_path" \notin DOMAIN kwargs
                    /\ "settings_file" \notin DOMAIN kwargs
                 THEN kwargs @@ ("settings_path" :> path)
                 ELSE kwargs)

\* sorted_file(filename, config=cfg, **config_kwargs), where File.read(filename)
\* gave the contents and the path of the file; the result is that of sorted_imports
sorted_file(contents, cfg, path, kwargs, kind) ==
    LET c == _config_path(path, cfg, <<>>)
    IN  IF c.raised THEN Raised("ValueError")
        ELSE sorted_imports(contents, c.config, path, FALSE, kwargs, kind)

(***************************************************************************)
(* State.                                                                  *)
(*                                                                         *)
(* sort_imports: its arguments (input_stream with its read position        *)
(* cursor, output_stream, config), its locals, and pc, the position in     *)
(* its body.  line_pos, line_kind and flushed record what happened and     *)
(* are read by no action: the 0-based position in the stream of `line`,    *)
(* the branch of the classification it took, and the blocks written so     *)
(* far, as they were before any sorting, with whether they went through    *)
(* SortTransform.                                                          *)
(*                                                                         *)
(* sorted_imports, check_imports, sorted_file: the arguments of the call    *)
(* (call names the entry point), outcome, what the call returned or        *)
(* raised, and previous, the outcome of the call before it.                *)
(* transform is the SortTransform in use.                                  *)
(***************************************************************************)
VARIABLES
    input_stream, cursor, output_stream, index, line, import_section, in_quote,
    first_comment_index_start, first_comment_index_end, contains_imports,
    in_top_comment, not_imports, nested_line, nested_stripped_line, pc,
    line_pos, line_kind, flushed,
    file_contents, config, config_kwargs, file_path, disregard_skip, show_diff,
    transform, call, outcome, previous

streamVars ==
    << input_stream, cursor, output_stream, index, line, import_section, in_quote,
       first_comment_index_start, first_comment_index_end, contains_imports,
       in_top_comment, not_imports, nested_line, nested_stripped_line, pc,
       line_pos, line_kind, flushed >>

callVars ==
    << file_contents, config_kwargs, file_path, disregard_skip, show_diff,
       call, outcome, previous >>

vars == << streamVars, callVars, config, transform >>

(***************************************************************************)
(* sort_imports, lines 151-178: the top-banner test and the quote scan of  *)
(* one line.  st holds in_top_comment, in_quote and the two                *)
(* first_comment indices.                                                  *)
(***************************************************************************)
HasQuote(ln) == Contains(ln, <<DoubleQuote>>) \/ Contains(ln, <<SingleQuote>>)

LexicalStep(ln, idx, st, cfg) ==
    IF idx = 1 /\ StartsWith(ln, <<"#">>)
    THEN [st EXCEPT !.in_top_comment = TRUE]
    ELSE IF st.in_top_comment
    THEN IF ~StartsWith(ln, <<"#">>) \/ ln \in section_comments(cfg)
         THEN [st EXCEPT !.in_top_comment = FALSE,
                         !.first_comment_index_end = idx - 1]
         ELSE st
    ELSE IF HasQuote(ln)
    THEN LET start == IF st.first_comment_index_start = -1
                         /\ (StartsWith(ln, <<DoubleQuote>>)
                             \/ StartsWith(ln, <<SingleQuote>>))
                      THEN idx ELSE st.first_comment_index_start
             scan == QuoteScan(ln, 1, st.in_quote, start,
                               st.first_comment_index_end, idx)
         IN  [st EXCEPT !.in_quote = scan.in_quote,
                        !.first_comment_index_start = start,
                        !.first_comment_index_end = scan.first_comment_index_end]
    ELSE st

\* sort_imports, lines 181-205: the branch a line takes once the scan is done
LineKind(ln, quote) ==
    IF quote # <<>> THEN "literal"
    ELSE IF Strip(ln) = <<>> \/ StartsWith(Strip(ln), <<"#">>) THEN "blank_comment"
    ELSE IF StartsWithImport(Strip(ln)) THEN "import"
    ELSE "code"

\* line 187: the statement goes on to further lines inside parentheses
OpensParen(stripped_line) ==
    Contains(stripped_line, <<"(">>) /\ ~Contains(stripped_line, <<")">>)

\* input_stream.readline(): the next line, or "" at the end of the stream
Readline(stream, pos) == IF pos < Len(stream) THEN stream[pos + 1] ELSE <<>>

\* import_section += text, the section being kept as its lines
Extend(section, text) == IF text = <<>> THEN section ELSE Append(section, text)

StreamInit ==
    /\ input_stream \in SeqsUpTo(StreamLines, MaxStreamLines)
    /\ cursor = 0
    /\ output_stream = <<>>
    /\ index = -1
    /\ line = <<>>
    /\ import_section = <<>>
    /\ in_quote = <<>>
    /\ first_comment_index_start = -1
    /\ first_comment_index_end = -1
    /\ contains_imports = FALSE
    /\ in_top_comment = FALSE
    /\ not_imports = FALSE
    /\ nested_line = <<>>
    /\ nested_stripped_line = <<>>
    /\ pc = "loop"
    /\ line_pos = -1
    /\ line_kind = "none"
    /\ flushed = <<>>

\* the whole-content variables while sort_imports is the call under study
CallIdle ==
    /\ file_contents = <<>>
    /\ config_kwargs = <<>>
    /\ file_path = "none"
    /\ disregard_skip = FALSE
    /\ show_diff = FALSE
    /\ call = "none"
    /\ outcome = [status |-> "none"]
    /\ previous = [status |-> "none"]

\* lines 150-186 and 203-205: the for loop takes the next line, classifies it
\* and either enters a continuation loop or goes on to the flush test
ReadLine ==
    /\ pc = "loop"
    /\ cursor < Len(input_stream)
    /\ LET ln == input_stream[cursor + 1]
           idx == index + 1
           st == LexicalStep(ln, idx,
                     [ in_top_comment |-> in_top_comment, in_quote |-> in_quote,
                       first_comment_index_start |-> first_comment_index_start,
                       first_comment_index_end |-> first_comment_index_end ],
                     config)
           kind == LineKind(ln, st.in_quote)
           stripped_line == Strip(ln)
       IN  /\ line' = ln
           /\ index' = idx
           /\ cursor' = cursor + 1
           /\ line_pos' = cursor
           /\ line_kind' = kind
           /\ in_top_comment' = st.in_top_comment
           /\ in_quote' = st.in_quote
           /\ first_comment_index_start' = st.first_comment_index_start
           /\ first_comment_index_end' = st.first_comment_index_end
           /\ not_imports' = (st.in_quote # <<>> \/ st.in_top_comment \/ kind = "code")
           /\ import_section' = IF kind \in {"blank_comment", "import"}
                                THEN Extend(import_section, ln)
                                ELSE import_section
           /\ IF kind = "import" /\ OpensParen(stripped_line)
              THEN /\ nested_line' = ln
                   /\ nested_stripped_line' = BeforeHash(Strip(ln))
                   /\ pc' = "paren"
                   /\ UNCHANGED contains_imports
              ELSE IF kind = "import" /\ EndsWith(stripped_line, <<Backslash>>)
              THEN /\ nested_line' = ln
                   /\ nested_stripped_line' = Strip(ln)
                   /\ pc' = "backslash"
                   /\ UNCHANGED contains_imports
              ELSE /\ contains_imports' = (contains_imports \/ kind = "import")
                   /\ pc' = "flush"
                   /\ UNCHANGED << nested_line, nested_stripped_line >>
    /\ UNCHANGED << input_stream, output_stream, flushed >>
    /\ UNCHANGED << callVars, config, transform >>

\* lines 190-193: one turn of the parenthesis loop
ParenRead ==
    /\ pc = "paren"
    /\ ~Contains(nested_stripped_line, <<")">>)
    /\ LET nl == Readline(input_stream, cursor)
       IN  /\ nested_line' = nl
           /\ nested_stripped_line' = Strip(nl)
           /\ import_section' = Extend(import_section, nl)
           /\ cursor' = IF cursor < Len(input_stream) THEN cursor + 1 ELSE cursor
    /\ UNCHANGED << input_stream, output_stream, index, line, in_quote,
                    first_comment_index_start, first_comment_index_end,
                    contains_imports, in_top_comment, not_imports, pc,
                    line_pos, line_kind, flushed >>
    /\ UNCHANGED << callVars, config, transform >>

\* lines 190 and 195-197, 203: the parenthesis loop ends; the backslash test
ParenDone ==
    /\ pc = "paren"
    /\ Contains(nested_stripped_line, <<")">>)
    /\ IF EndsWith(Strip(line), <<Backslash>>)
       THEN /\ nested_line' = line
            /\ nested_stripped_line' = Strip(line)
            /\ pc' = "backslash"
            /\ UNCHANGED contains_imports
       ELSE /\ contains_imports' = TRUE
            /\ pc' = "flush"
            /\ UNCHANGED << nested_line, nested_stripped_line >>
    /\ UNCHANGED << input_stream, cursor, output_stream, index, line, import_section,
                    in_quote, first_comment_index_start, first_comment_index_end,
                    in_top_comment, not_imports, line_pos, line_kind, flushed >>
    /\ UNCHANGED << callVars, config, transform >>

\* lines 198-201: one turn of the backslash loop
BackslashRead ==
    /\ pc = "backslash"
    /\ nested_line # <<>> /\ EndsWith(nested_stripped_line, <<Backslash>>)
    /\ LET nl == Readline(input_stream, cursor)
       IN  /\ nested_line' = nl
           /\ nested_stripped_line' = Strip(nl)
           /\ import_section' = Extend(import_section, nl)
           /\ cursor' = IF cursor < Len(input_stream) THEN cursor + 1 ELSE cursor
    /\ UNCHANGED << input_stream, output_stream, index, line, in_quote,
                    first_comment_index_start, first_comment_index_end,
                    contains_imports, in_top_comment, not_imports, pc,
                    line_pos, line_kind, flushed >>
    /\ UNCHANGED << callVars, config, transform >>

\* lines 198 and 203: the backslash loop ends
BackslashDone ==
    /\ pc = "backslash"
    /\ ~(nested_line # <<>> /\ EndsWith(nested_stripped_line, <<Backslash>>))
    /\ contains_imports' = TRUE
    /\ pc' = "flush"
    /\ UNCHANGED << input_stream, cursor, output_stream, index, line, import_section,
                    in_quote, first_comment_index_start, first_comment_index_end,
                    in_top_comment, not_imports, nested_line, nested_stripped_line,
                    line_pos, line_kind, flushed >>
    /\ UNCHANGED << callVars, config, transform >>

\* lines 209-217: the block written when a Section is flushed
FlushedBlock(section, ln, has_imports, kind) ==
    IF has_imports
    THEN output_sorted_imports(kind, Extend(section, ln))
    ELSE Extend(section, ln)

\* Flush without line 218: contains_imports survives the flush
FlushKeepsFlag ==
    /\ pc = "flush"
    /\ IF not_imports
       THEN IF import_section # <<>>
            THEN /\ output_stream' = output_stream \o
                        FlushedBlock(import_section, line, contains_imports, transform)
                 /\ flushed' = Append(flushed,
                        [ text |-> Extend(import_section, line),
                          sorted |-> contains_imports ])
                 /\ import_section' = <<>>
                 /\ UNCHANGED << not_imports, contains_imports >>
            ELSE /\ output_stream' = Append(output_stream, line)
                 /\ flushed' = Append(flushed,
                        [ text |-> <<line>>, sorted |-> FALSE ])
                 /\ not_imports' = FALSE
                 /\ UNCHANGED << contains_imports, import_section >>
       ELSE UNCHANGED << output_stream, flushed, contains_imports, import_section,
                         not_imports >>
    /\ pc' = "loop"
    /\ UNCHANGED << input_stream, cursor, index, line, in_quote,
                    first_comment_index_start, first_comment_index_end,
                    in_top_comment, nested_line, nested_stripped_line,
                    line_pos, line_kind >>
    /\ UNCHANGED << callVars, config, transform >>

\* Flush without line 219: the Section stays in the buffer after it was written
FlushKeepsSection ==
    /\ pc = "flush"
    /\ IF not_imports
       THEN IF import_section # <<>>
            THEN /\ output_stream' = output_stream \o
                        FlushedBlock(import_section, line, contains_imports, transform)
                 /\ flushed' = Append(flushed,
                        [ text |-> Extend(import_section, line),
                          sorted |-> contains_imports ])
                 /\ contains_imports' = FALSE
                 /\ import_section' = Extend(import_section, line)
                 /\ UNCHANGED not_imports
            ELSE /\ output_stream' = Append(output_stream, line)
                 /\ flushed' = Append(flushed,
                        [ text |-> <<line>>, sorted |-> FALSE ])
                 /\ not_imports' = FALSE
                 /\ UNCHANGED << contains_imports, import_section >>
       ELSE UNCHANGED << output_stream, flushed, contains_imports, import_section,
                         not_imports >>
    /\ pc' = "loop"
    /\ UNCHANGED << input_stream, cursor, index, line, in_quote,
                    first_comment_index_start, first_comment_index_end,
                    in_top_comment, nested_line, nested_stripped_line,
                    line_pos, line_kind >>
    /\ UNCHANGED << callVars, config, transform >>

\* lines 207-222: the end of one turn of the for loop
Flush ==
    /\ pc = "flush"
    /\ IF not_imports
       THEN IF import_section # <<>>
            THEN /\ output_stream' = output_stream \o
                        FlushedBlock(import_section, line, contains_imports, transform)
                 /\ flushed' = Append(flushed,
                        [ text |-> Extend(import_section, line),
                          sorted |-> contains_imports ])
                 /\ contains_imports' = FALSE
                 /\ import_section' = <<>>
                 /\ UNCHANGED not_imports
            ELSE /\ output_stream' = Append(output_stream, line)
                 /\ flushed' = Append(flushed,
                        [ text |-> <<line>>, sorted |-> FALSE ])
                 /\ not_imports' = FALSE
                 /\ UNCHANGED << contains_imports, import_section >>
       ELSE UNCHANGED << output_stream, flushed, contains_imports, import_section,
                         not_imports >>
    /\ pc' = "loop"
    /\ UNCHANGED << input_stream, cursor, index, line, in_quote,
                    first_comment_index_start, first_comment_index_end,
                    in_top_comment, nested_line, nested_stripped_line,
                    line_pos, line_kind >>
    /\ UNCHANGED << callVars, config, transform >>

\* line 150: the stream is exhausted, the for loop ends and sort_imports returns
Return ==
    /\ pc = "loop"
    /\ cursor = Len(input_stream)
    /\ pc' = "done"
    /\ UNCHANGED << input_stream, cursor, output_stream, index, line, import_section,
                    in_quote, first_comment_index_start, first_comment_index_end,
                    contains_imports, in_top_comment, not_imports, nested_line,
                    nested_stripped_line, line_pos, line_kind, flushed >>
    /\ UNCHANGED << callVars, config, transform >>

Init ==
    /\ StreamInit
    /\ CallIdle
    /\ config = DEFAULT_CONFIG
    /\ transform = "canonical"

Next ==
    \/ ReadLine
    \/ ParenRead
    \/ ParenDone
    \/ BackslashRead
    \/ BackslashDone
    \/ Flush
    \/ Return

\* sort_imports on every stream of at most MaxStreamLines lines
Spec == Init /\ [][Next]_vars

(***************************************************************************)
(* The whole-content calls.                                                *)
(***************************************************************************)
\* the Config objects a caller passes
Configs ==
    {DEFAULT_CONFIG} \cup
    [ is_default : {FALSE}, atomic : BOOLEAN, ignore_whitespace : BOOLEAN,
      verbose : BOOLEAN, line_ending : {<<>>}, import_headings : {{}} ]

\* the keyword overrides a caller passes
KwargChoices == { <<>>, "atomic" :> TRUE }

\* sort_imports is not running
StreamIdle ==
    /\ input_stream = <<>>
    /\ cursor = 0
    /\ output_stream = <<>>
    /\ index = -1
    /\ line = <<>>
    /\ import_section = <<>>
    /\ in_quote = <<>>
    /\ first_comment_index_start = -1
    /\ first_comment_index_end = -1
    /\ contains_imports = FALSE
    /\ in_top_comment = FALSE
    /\ not_imports = FALSE
    /\ nested_line = <<>>
    /\ nested_stripped_line = <<>>
    /\ pc = "idle"
    /\ line_pos = -1
    /\ line_kind = "none"
    /\ flushed = <<>>

CallInit ==
    /\ StreamIdle
    /\ CallIdle
    /\ config = DEFAULT_CONFIG
    /\ transform = "canonical"

\* the arguments of a call, and the SortTransform it runs with
TakeArguments(contents, cfg, kwargs, path, no_skip, diff, kind) ==
    /\ file_contents' = contents
    /\ config' = cfg
    /\ config_kwargs' = kwargs
    /\ file_path' = path
    /\ disregard_skip' = no_skip
    /\ show_diff' = diff
    /\ transform' = kind

\* a call of sorted_imports
CallSortedImports ==
    /\ call = "none"
    /\ \E contents \in SeqsUpTo(ContentLines, MaxContentLines), cfg \in Configs,
          kwargs \in KwargChoices, path \in {"none", "kept", "skipped"},
          no_skip \in BOOLEAN, kind \in TransformKinds :
            /\ TakeArguments(contents, cfg, kwargs, path, no_skip, FALSE, kind)
            /\ outcome' = sorted_imports(contents, cfg, path, no_skip, kwargs, kind)
    /\ call' = "sorted_imports"
    /\ UNCHANGED << previous, streamVars >>

\* sorted_imports called again, on the text the first call returned
CallSortedImportsAgain ==
    /\ call = "sorted_imports"
    /\ outcome.status = "ok"
    /\ call' = "sorted_imports_again"
    /\ previous' = outcome
    /\ outcome' = sorted_imports(outcome.result, config, file_path, disregard_skip,
                                 config_kwargs, transform)
    /\ UNCHANGED << file_contents, config_kwargs, file_path, disregard_skip,
                    show_diff, config, transform, streamVars >>

\* a call of check_imports
CallCheckImports ==
    /\ call = "none"
    /\ \E contents \in SeqsUpTo(ContentLines, MaxContentLines), cfg \in Configs,
          kwargs \in KwargChoices, path \in {"none", "kept", "skipped"},
          no_skip \in BOOLEAN, diff \in BOOLEAN, kind \in TransformKinds :
            /\ TakeArguments(contents, cfg, kwargs, path, no_skip, diff, kind)
            /\ outcome' = check_imports(contents, diff, cfg, path, no_skip, kwargs, kind)
    /\ call' = "check_imports"
    /\ UNCHANGED << previous, streamVars >>

\* a call of sorted_file
CallSortedFile ==
    /\ call = "none"
    /\ \E contents \in SeqsUpTo(ContentLines, MaxContentLines), cfg \in Configs,
          kwargs \in KwargChoices, path \in {"kept", "skipped"},
          kind \in TransformKinds :
            /\ TakeArguments(contents, cfg, kwargs, path, FALSE, FALSE, kind)
            /\ outcome' = sorted_file(contents, cfg, path, kwargs, kind)
    /\ call' = "sorted_file"
    /\ UNCHANGED << previous, streamVars >>

CallNext ==
    \/ CallSortedImports
    \/ CallSortedImportsAgain
    \/ CallCheckImports
    \/ CallSortedFile

\* sorted_imports, check_imports and sorted_file on every content of at most
\* MaxContentLines lines
CallSpec == CallInit /\ [][CallNext]_vars

(***************************************************************************)
(* What the text of a stream really is, read line by line from its start:  *)
(* the yardstick the segmenter's classification is held against.           *)
(***************************************************************************)
\* the delimiter of the literal left open after the first n lines of stream
RECURSIVE OpenLiteral(_, _)
OpenLiteral(stream, n) ==
    IF n = 0 THEN <<>> ELSE QuoteAfter(stream[n], OpenLiteral(stream, n - 1))

\* how many times the character c occurs in s
RECURSIVE Count(_, _)
Count(s, c) ==
    IF s = <<>> THEN 0 ELSE (IF Head(s) = c THEN 1 ELSE 0) + Count(Tail(s), c)

\* opening minus closing parentheses in the code of a line (its comment left out)
ParenBalance(ln) == Count(BeforeHash(ln), "(") - Count(BeforeHash(ln), ")")

\* the parentheses of an import statement still open after the first n lines
RECURSIVE PendingParens(_, _)
PendingParens(stream, n) ==
    IF n = 0 THEN 0
    ELSE LET before == PendingParens(stream, n - 1)
             ln == stream[n]
             isImport == /\ OpenLiteral(stream, n - 1) = <<>>
                         /\ OpenLiteral(stream, n) = <<>>
                         /\ StartsWithImport(Strip(ln))
             depth == IF before > 0 THEN before + ParenBalance(ln)
                      ELSE IF isImport THEN ParenBalance(ln)
                      ELSE 0
         IN  IF depth > 0 THEN depth ELSE 0

\* none of the first n lines is an import statement that goes on to the next line
OneLineStatements(stream, n) ==
    \A i \in 1..n :
        StartsWithImport(Strip(stream[i]))
            => (ParenBalance(stream[i]) <= 0 /\ ~EndsWith(Strip(stream[i]), <<Backslash>>))

\* no line of the stream has the shape of an import statement
NoImportStatement(stream) ==
    \A i \in 1..Len(stream) : ~StartsWithImport(Strip(stream[i]))

\* the stream ends, outside any literal, with a line of ordinary code
EndsWithCode(stream) ==
    /\ stream # <<>>
    /\ OpenLiteral(stream, Len(stream)) = <<>>
    /\ LineKind(stream[Len(stream)], <<>>) = "code"

\* the Config a whole-content call runs with, and whether _config accepted it
Resolved == _config(config, config_kwargs).config
Accepted == ~_config(config, config_kwargs).raised

\* the skip marker occurs in the content of the call
HasSkipMarker == Contains(Join(file_contents), FILE_SKIP_COMMENT)

SkipErrors == {"FileSkipComment", "FileSkipSetting"}
SyntaxErrors == {"ExistingSyntaxErrors", "IntroducedSyntaxErrors"}

(***************************************************************************)
(* The claims.                                                             *)
(***************************************************************************)

\* C1, as claimed: with config.atomic set and a content that compiles,
\* sorted_imports never returns a text that does not compile: it returns a text
\* that compiles or raises.
C1_AtomicResultCompiles ==
    (call = "sorted_imports" /\ Accepted /\ Resolved.atomic /\ Compiles(file_contents))
        => (outcome.status = "ok" => Compiles(outcome.result))

\* C2, as claimed, on the streams whose import statements before the line are
\* each on one line: a line that lies inside a multi-line string literal, or
\* that is a comment, is never classified as an import statement by sort_imports.
C2_NoImportInsideLiteral ==
    (line_kind = "import" /\ OneLineStatements(input_stream, line_pos))
        => /\ OpenLiteral(input_stream, line_pos) = <<>>
           /\ ~StartsWith(Strip(line), <<"#">>)

\* C3, as claimed: when sort_imports returns, no Section is left in the buffer:
\* a Section open at the end of the stream has been written, and a stream that
\* is not empty has produced output.
C3_EndOfStreamFlush ==
    pc = "done"
        => /\ import_section = <<>>
           /\ (input_stream # <<>> => output_stream # <<>>)

\* C4: in a call of sorted_imports whose configuration is accepted, with
\* disregard_skip false the skip marker in the content raises FileSkipComment,
\* and otherwise a file path matching a skip rule raises FileSkipSetting; a skip
\* error is raised before the validation and before SortTransform (also for a
\* content that does not compile); with disregard_skip true no skip error is
\* raised.
C4_SkipHandling ==
    (call = "sorted_imports" /\ Accepted)
        => /\ (~disregard_skip /\ HasSkipMarker) => outcome.status = "FileSkipComment"
           /\ (~disregard_skip /\ ~HasSkipMarker /\ file_path = "skipped")
                  => outcome.status = "FileSkipSetting"
           /\ outcome.status \in SkipErrors => ~outcome.transformed
           /\ disregard_skip => outcome.status \notin SkipErrors

\* C4, its case: the marker in a content that does not compile, atomic set
C4_Witness ==
    /\ call = "sorted_imports" /\ Accepted /\ Resolved.atomic
    /\ ~disregard_skip /\ HasSkipMarker /\ ~Compiles(file_contents)
    /\ outcome.status = "FileSkipComment"

\* C5: in a call of sorted_imports whose configuration is accepted, with
\* config.atomic set, no skip applying and a content that does not compile, the
\* call raises ExistingSyntaxErrors and SortTransform is not run; with
\* config.atomic unset neither syntax error is raised.
C5_ExistingSyntaxErrors ==
    (call = "sorted_imports" /\ Accepted)
        => /\ ( /\ Resolved.atomic
                /\ disregard_skip \/ (~HasSkipMarker /\ file_path # "skipped")
                /\ ~Compiles(file_contents) )
                  => (outcome.status = "ExistingSyntaxErrors" /\ ~outcome.transformed)
           /\ ~Resolved.atomic => outcome.status \notin SyntaxErrors

\* C5, its case: atomic set, no skip, a content that does not compile
C5_Witness ==
    /\ call = "sorted_imports" /\ Accepted /\ Resolved.atomic
    /\ ~disregard_skip /\ ~HasSkipMarker /\ file_path = "kept"
    /\ ~Compiles(file_contents)
    /\ outcome.status = "ExistingSyntaxErrors"

\* C6, as claimed: for a stream without an unterminated literal, the text
\* sort_imports has written when it returns is the text sorted_imports returns
\* for the same content, Config and SortTransform.
C6_StreamEqualsWhole ==
    (pc = "done" /\ OpenLiteral(input_stream, Len(input_stream)) = <<>>)
        => LET whole == sorted_imports(input_stream, config, "none", FALSE, <<>>,
                                       transform)
           IN  /\ whole.status = "ok"
               /\ Join(output_stream) = Join(whole.result)

\* C7, as claimed: for a stream with no import statement that ends with a line
\* of ordinary code, sort_imports writes exactly the lines it read, each once and
\* in their order.
C7_PassthroughFidelity ==
    (pc = "done" /\ NoImportStatement(input_stream) /\ EndsWithCode(input_stream))
        => output_stream = input_stream

\* C8, as claimed: no line of a parenthesized import statement is classified as
\* ordinary code: while the parentheses of an import statement are open, the
\* lines that follow belong to its Section.
C8_ParenImportOneSection ==
    line_kind = "code" => PendingParens(input_stream, line_pos) = 0

\* C9, as claimed: when sorted_imports succeeds on a content that compiles and
\* SortTransform is idempotent on the text returned, sorted_imports applied to
\* that text succeeds and returns it unchanged.
C9_Idempotent ==
    ( /\ call = "sorted_imports_again"
      /\ Compiles(file_contents)
      /\ output_sorted_imports(transform, previous.result) = previous.result )
        => (outcome.status = "ok" /\ outcome.result = previous.result)

\* C10: in a call of check_imports whose Config has ignore_whitespace off, when
\* the nested sorted_imports call returns r, check_imports returns TRUE exactly
\* if the content and r are equal once stripped; a diff is shown only with a
\* FALSE result and show_diff set; an error of the nested call is the error of
\* check_imports.
C10_CheckResult ==
    (call = "check_imports" /\ Accepted /\ ~Resolved.ignore_whitespace)
        => /\ outcome.inner_status = "ok"
                  => /\ outcome.status = "ok"
                     /\ outcome.value
                            <=> (Strip(Join(file_contents))
                                     = Strip(Join(outcome.inner_result)))
                     /\ outcome.diff_shown => (~outcome.value /\ show_diff)
           /\ outcome.inner_status \notin {"ok", "none"}
                  => outcome.status = outcome.inner_status

\* C10, its case: the result differs from the content only by what strip removes
C10_Witness ==
    /\ call = "check_imports" /\ Accepted /\ ~Resolved.ignore_whitespace
    /\ outcome.inner_status = "ok"
    /\ outcome.inner_result # file_contents
    /\ outcome.value

\* the lines of a text that are not blank, without indentation and terminator
CoreLines(lines) ==
    LET stripped == [i \in 1..Len(lines) |-> Strip(lines[i])]
    IN  SelectSeq(stripped, LAMBDA l : l # <<>>)

\* the line separator check_imports normalizes both texts with (line 96)
LineSeparator ==
    IF Resolved.line_ending # <<>> THEN Resolved.line_ending
    ELSE infer_line_separator(Join(file_contents))

\* C11: in a call of check_imports whose Config has ignore_whitespace set, when
\* the nested sorted_imports call returns r and the content and r differ only
\* in blank lines, indentation and line terminators, check_imports returns
\* TRUE; its result is the comparison of the two texts, both normalized with
\* one line separator: config.line_ending, or the one inferred from the content.
C11_WhitespaceInsensitive ==
    (call = "check_imports" /\ Accepted /\ Resolved.ignore_whitespace
         /\ outcome.inner_status = "ok")
        => /\ CoreLines(file_contents) = CoreLines(outcome.inner_result)
                  => outcome.value
           /\ outcome.value
                  <=> (Strip(remove_whitespace(Join(file_contents), LineSeparator))
                         = Strip(remove_whitespace(Join(outcome.inner_result),
                                                   LineSeparator)))

\* C11, its case: TRUE for two texts that the comparison without the flag tells apart
C11_Witness ==
    /\ call = "check_imports" /\ Accepted /\ Resolved.ignore_whitespace
    /\ outcome.inner_status = "ok"
    /\ CoreLines(file_contents) = CoreLines(outcome.inner_result)
    /\ Strip(Join(file_contents)) # Strip(Join(outcome.inner_result))
    /\ Contains(Join(outcome.inner_result), <<"\r", "\n">>)
    /\ outcome.value

\* C12, as claimed: when the first line of the stream is not a comment line,
\* sort_imports never enters the top banner (in_top_comment is never set), also
\* when the second line starts with "#".
C12_BannerNeedsLeadingComment ==
    (input_stream # <<>> /\ ~StartsWith(Strip(input_stream[1]), <<"#">>))
        => ~in_top_comment

\* C14, as claimed: the index the banner test of sort_imports uses is the
\* 0-based position of the current line in the stream, also after lines were
\* pulled by a continuation loop.
C14_IndexIsLinePosition ==
    line_pos >= 0 => index = line_pos

\* C15, as claimed: a continuation loop of sort_imports stops when the stream
\* is exhausted: once readline has returned the empty string, the parenthesis
\* loop and the backslash loop are left, so sort_imports returns.
C15_LoopsStopAtEndOfStream ==
    /\ (pc = "paren" /\ nested_line = <<>>) => ENABLED ParenDone
    /\ (pc = "backslash" /\ nested_line = <<>>) => ENABLED BackslashDone

(***************************************************************************)
(* sort_imports under a Config that has import headings: "c" is the        *)
(* heading of a section, so "# c" is a heading comment.                    *)
(***************************************************************************)
HeadingsConfig ==
    [DEFAULT_CONFIG EXCEPT !.is_default = FALSE, !.import_headings = {<<"c">>}]

HeadingInit ==
    /\ StreamInit
    /\ CallIdle
    /\ config = HeadingsConfig
    /\ transform = "canonical"

HeadingSpec == HeadingInit /\ [][Next]_vars

\* a line of the stream that is a heading comment, with or without its terminator
IsHeadingComment(ln, cfg) ==
    \E h \in section_comments(cfg) :
        ln \in { h, h \o <<"\n">>, h \o <<"\r", "\n">> }

\* C13, as claimed: a line read while sort_imports is in the top banner keeps
\* it there exactly when the line starts with "#" and is not a heading comment;
\* otherwise the banner is left and first_comment_index_end is the index of the
\* line before.  A heading comment read with its line terminator counts as one.
C13_BannerExit ==
    [][ (in_top_comment /\ pc = "loop" /\ cursor' = cursor + 1)
            => /\ in_top_comment'
                    <=> (StartsWith(line', <<"#">>) /\ ~IsHeadingComment(line', config))
               /\ ~in_top_comment' => first_comment_index_end' = index' - 1 ]_vars

(***************************************************************************)
(* What sort_imports has written and what it holds back.                   *)
(***************************************************************************)
\* the lines of a written block before the line that closed it
Front(text) == SubSeq(text, 1, Len(text) - 1)

HasImportLine(lines) ==
    \E i \in 1..Len(lines) : StartsWithImport(Strip(lines[i]))

RECURSIVE RawWritten(_)
RawWritten(blocks) ==
    IF blocks = <<>> THEN <<>> ELSE Head(blocks).text \o RawWritten(Tail(blocks))

\* the lines of w are lines of r taken in the order of r; a line may be
\* taken more than once in a row
RECURSIVE InOrder(_, _)
InOrder(w, r) ==
    IF w = <<>> THEN TRUE
    ELSE IF r = <<>> THEN FALSE
    ELSE IF Head(w) = Head(r) THEN InOrder(Tail(w), r)
    ELSE InOrder(w, Tail(r))

\* the buffer is one run of consecutive lines of the stream that ends at the
\* line read last or at the one before it
OneRunBuffered ==
    \E k \in 0..cursor :
        /\ k + Len(import_section) \in {cursor - 1, cursor}
        /\ import_section = SubSeq(input_stream, k + 1, k + Len(import_section))

\* C16: a block goes through SortTransform exactly when a line that starts an
\* import statement was appended to the Section since the flush before; a
\* Section of blank and comment lines, with the line that closed it, is
\* written as it is.
C16_SortedIffImports ==
    \A i \in 1..Len(flushed) :
        flushed[i].sorted <=> HasImportLine(Front(flushed[i].text))

\* a comment-only Section was written as it is and, after it, a Section with
\* an import statement went through SortTransform
C16_Witness ==
    \E i, j \in 1..Len(flushed) :
        /\ i < j
        /\ ~flushed[i].sorted /\ Len(flushed[i].text) >= 2
        /\ flushed[j].sorted
        /\ output_stream # <<>>

\* C19: at the start of every turn of the for loop contains_imports implies
\* that import_section is not empty; right after a block is written
\* import_section is empty and contains_imports is false; the lines written and
\* buffered keep the order of the stream, and the buffer is one run of
\* consecutive lines, so one Section at most is held at any time.
C19_SectionBuffer ==
    /\ [](/\ (pc = "loop" /\ contains_imports) => import_section # <<>>
          /\ InOrder(RawWritten(flushed) \o import_section,
                     SubSeq(input_stream, 1, cursor))
          /\ OneRunBuffered)
    /\ [][ Len(flushed') > Len(flushed)
               => (import_section' = <<>> /\ ~contains_imports') ]_vars

\* a Section with an import statement was written and the next one, again with
\* an import statement, is in the buffer at the start of a turn
C19_Witness ==
    /\ pc = "loop"
    /\ \E i \in 1..Len(flushed) : flushed[i].sorted
    /\ contains_imports
    /\ import_section # <<>>

(***************************************************************************)
(* The quote scan of sort_imports on one line: lines 157-178 applied to    *)
(* every line of at most MaxScanLen characters over the characters the     *)
(* scan tells apart, with every delimiter the scan can have left open on   *)
(* the lines before.  The line is the first of its stream, so the banner   *)
(* test of line 151 does not apply.                                        *)
(***************************************************************************)
ScanChars == {SingleQuote, DoubleQuote, Backslash, "#", "a"}

QuoteStates == {<<>>, <<SingleQuote>>, <<DoubleQuote>>} \cup TripleQuotes

ScanInit ==
    /\ line \in SeqsUpTo(ScanChars, MaxScanLen) \ {<<>>}
    /\ in_quote \in QuoteStates
    /\ input_stream = <<line>>
    /\ cursor = 1
    /\ output_stream = <<>>
    /\ index = 0
    /\ import_section = <<>>
    /\ first_comment_index_start = -1
    /\ first_comment_index_end = -1
    /\ contains_imports = FALSE
    /\ in_top_comment = FALSE
    /\ not_imports = FALSE
    /\ nested_line = <<>>
    /\ nested_stripped_line = <<>>
    /\ pc = "scan"
    /\ line_pos = 0
    /\ line_kind = "none"
    /\ flushed = <<>>
    /\ CallIdle
    /\ config = DEFAULT_CONFIG
    /\ transform = "canonical"

\* lines 151-178 on the line
ScanLine ==
    /\ pc = "scan"
    /\ LET st == LexicalStep(line, index,
                     [ in_top_comment |-> in_top_comment, in_quote |-> in_quote,
                       first_comment_index_start |-> first_comment_index_start,
                       first_comment_index_end |-> first_comment_index_end ],
                     config)
       IN  /\ in_top_comment' = st.in_top_comment
           /\ in_quote' = st.in_quote
           /\ first_comment_index_start' = st.first_comment_index_start
           /\ first_comment_index_end' = st.first_comment_index_end
    /\ pc' = "scanned"
    /\ UNCHANGED << input_stream, cursor, output_stream, index, line, import_section,
                    contains_imports, not_imports, nested_line, nested_stripped_line,
                    line_pos, line_kind, flushed >>
    /\ UNCHANGED << callVars, config, transform >>

ScanNext == ScanLine

ScanSpec == ScanInit /\ [][ScanNext]_vars

\* the number of backslashes that end s
RECURSIVE TrailingBackslashes(_)
TrailingBackslashes(s) ==
    IF s # <<>> /\ s[Len(s)] = Backslash
    THEN 1 + TrailingBackslashes(SubSeq(s, 1, Len(s) - 1))
    ELSE 0

\* the character at i directly follows an escape backslash
Escaped(s, i) == TrailingBackslashes(SubSeq(s, 1, i - 1)) % 2 = 1

\* s with another character in place of the one at i
Blanked(s, i) == [s EXCEPT ![i] = "a"]

\* C17: in_quote is always empty, one quote character or one of the two triple
\* quotes; a quote character that directly follows an escape backslash neither
\* opens nor closes a literal (the scan ends as if another character stood
\* there), inside a literal and outside; and a "#" met outside any literal
\* ends the scan of the line, so no literal is open after it.
C17_QuoteScan ==
    /\ [](in_quote \in QuoteStates)
    /\ [][ (pc = "scan" /\ pc' = "scanned")
             => \A i \in 1..Len(line) :
                  /\ (line[i] \in {SingleQuote, DoubleQuote} /\ Escaped(line, i))
                        => in_quote' = QuoteAfter(Blanked(line, i), in_quote)
                  /\ (/\ line[i] = "#" /\ ~Escaped(line, i)
                      /\ QuoteAfter(SubSeq(line, 1, i - 1), in_quote) = <<>>)
                        => in_quote' = <<>> ]_vars

\* a line was scanned that has an escaped quote character inside a literal,
\* which is still open at the end of the line, and a "#" inside the literal
C17_Witness ==
    /\ pc = "scanned"
    /\ in_quote # <<>>
    /\ Contains(line, <<"#">>)
    /\ \E i \in 2..Len(line) :
          line[i] \in {SingleQuote, DoubleQuote} /\ Escaped(line, i)

\* C18, as claimed: check_imports and sorted_file, called with the default
\* Config, with or without keyword options, never raise the ValueError of
\* _config.
C18_ConfigBuiltOnce ==
    (call \in {"check_imports", "sorted_file"} /\ config.is_default)
        => outcome.status # "ValueError"

====
